---- MODULE Spec2Model ----
(***************************************************************************)
(* Croquette: a string-keyed dictionary on a chained hash table            *)
(* (src/src/croquette.c).  The process-wide singleton `croquette`, its     *)
(* carrier nodes and the last-error slot are the state; every public       *)
(* function is one action, computed by operators that follow the C code    *)
(* statement by statement over a machine-state record M.                   *)
(***************************************************************************)
EXTENDS Integers, Sequences, FiniteSets, TLC

\* ------------------------------------------------------------------ bounds
NumKeys == 2
NumSeqKeys == 7
NumTableKeys == 6
MaxHashCap == 8
MaxCarriers == 3

\* -------------------------------------------------------- program constants
CROQUETTE_DEFAULT_INITIAL_SIZE == 11
MAX_KEY_SIZE == 255

D_Error == -1
D_Success == 0

D_Insert == 0
D_Remove == 1

D_No_Free == 0
D_Do_Free == 1
Croquette_NoFree_Value == 0
Croquette_Free_Value == 1

D_No_Error == 0
D_General_Error == 1
D_Uninitialized == 2
D_Unknown_Error == 3
D_Invalid_Key == 4
D_Invalid_Value == 5
D_Entry_NULL == 6
D_Invalid_Capacity == 7
D_Invalid_Index == 8
D_No_Value == 9
D_Insufficient_Memory == 10
D_FreeValue_Missing == 11
D_ValueCompare_Missing == 12
D_Exists == 13
D_No_Such_Error == 14
D_Num_Errors == 15

\* The null pointer: of a carrier, of a value, of a callback.
NULL == 0

\* A key argument is a C string (the sequence of its character codes, none
\* of them 0) or the null pointer, written as the one sequence that is no
\* string body.
NullKey == <<0>>

\* ------------------------------------------------------------ the machine
VARIABLES
  croquette,        \* <<>> when the global pointer is NULL, else <<struct>>
  nodes,            \* the allocated carriers: id -> [key, value, next, prev, beyond]
  croquette_error,  \* the last-error slot
  freed,            \* values handed to free_value during the last call
  crashed,          \* the process died in the last call (null callback call)
  call,             \* the last public call and its arguments
  ret,              \* what it returned
  pre,              \* what the table held when it was called
  destroyed,        \* a live table has been destroyed before
  work              \* what the last call did inside: rehashes, bucket reads

vars == <<croquette, nodes, croquette_error, freed, crashed, call, ret, pre, destroyed,
          work>>

\* calloc: when allocation faults are on (M.faulty), the first M.heap
\* allocations of the call succeed and the next ones return NULL.
Calloc(M) ==
  IF M.faulty /\ M.heap = 0 THEN [ok |-> FALSE, m |-> M]
  ELSE [ok |-> TRUE, m |-> [M EXCEPT !.heap = IF M.faulty THEN @ - 1 ELSE @]]

croquette_set_error(M, error) ==
  LET M1 == IF error < 0 \/ error > D_Num_Errors
              THEN [M EXCEPT !.croquette_error = D_No_Such_Error]
              ELSE M
  IN  [M1 EXCEPT !.croquette_error = error]

croquette_get_error(M) == M.croquette_error

Fail(M, error, r) == [m |-> croquette_set_error(M, error), r |-> r]

strlen(key) == Len(key)

\* Faulty variant: takes the empty key for a key.
InvalidKey_null_only(key) == key = NullKey

InvalidKey(key) == key = NullKey \/ strlen(key) = 0

\* ---------------------------------------------------------------- the keys
\* The keys the callers use, as the character codes of their strings.
K_aaa == <<97, 97, 97>>
K_bee == <<98, 101, 101>>
K_cee == <<99, 101, 101>>
K_eee == <<101, 101, 101>>
K_eff == <<101, 102, 102>>
K_dab == <<100, 97, 98>>
K_egg == <<101, 103, 103>>
K_hid == <<104, 105, 100>>
K_a == <<97>>
K_empty == <<>>
K_b == <<98>>
K_ab == <<97, 98>>
K_ba == <<98, 97>>
K_abcd == <<97, 98, 99, 100>>
K_dcba == <<100, 99, 98, 97>>
\* Keys of ten characters: the last shift of their hash overflows the long.
\* The hash of K_ten_a wraps to an odd negative number, that of K_ten_d to a
\* negative multiple of four, that of K_ten_b to a positive number.  K_nine
\* is as long as a key can be without an overflow.
K_nine == <<122, 122, 122, 122, 122, 122, 122, 122, 122>>
K_ten_a == <<97, 97, 97, 97, 97, 97, 97, 97, 97, 97>>
K_ten_b == <<98, 98, 98, 98, 98, 98, 98, 98, 98, 98>>
K_ten_d == <<97, 97, 97, 97, 97, 97, 97, 97, 97, 100>>

\* Keys around MAX_KEY_SIZE characters: K_254 is the longest key a carrier
\* holds whole, K_255 is what it keeps of K_256x and of K_256y, which differ
\* in their last character only, and Beyond is what a read that runs past a
\* carrier's key buffer may find before the next zero byte.
K_254 == [i \in 1..(MAX_KEY_SIZE - 1) |-> 98]
K_255 == [i \in 1..MAX_KEY_SIZE |-> 98]
K_256x == [i \in 1..(MAX_KEY_SIZE + 1) |-> IF i > MAX_KEY_SIZE THEN 120 ELSE 98]
K_256y == [i \in 1..(MAX_KEY_SIZE + 1) |-> IF i > MAX_KEY_SIZE THEN 121 ELSE 98]
Beyond == {<<>>, <<33>>}

ModelKeys ==
  {K_aaa, K_bee, K_cee, K_eee, K_eff, K_dab, K_egg, K_hid, K_a, K_b, K_ab, K_ba,
   K_abcd, K_dcba, K_nine, K_ten_a, K_ten_b, K_ten_d, K_254, K_256x, K_256y}
     \cup {K_255 \o b : b \in Beyond}

\* The hash accumulator is a long: LongBits bits, two's complement.  A long
\* is written here in digits of ShiftBits bits, lowest first, without its
\* leading zeros: at most LongDigits whole digits and a top digit of TopBits
\* bits, the highest of which is the sign.  A shift or a sum that does not
\* fit keeps its low LongBits bits.
LongBits == 64
ShiftBits == 7
Radix == 2 ^ ShiftBits
LongDigits == LongBits \div ShiftBits
TopBits == LongBits % ShiftBits

long_wrap(d) ==
  IF Len(d) <= LongDigits THEN d
  ELSE SubSeq(d, 1, LongDigits) \o <<d[LongDigits + 1] % (2 ^ TopBits)>>

long_negative(d) ==
  Len(d) = LongDigits + 1 /\ d[LongDigits + 1] >= 2 ^ (TopBits - 1)

\* The digits are those of a number no long can hold.
long_exceeded(d) ==
  \E i \in (LongDigits + 1)..Len(d) :
    d[i] # 0 /\ (i > LongDigits + 1 \/ d[i] >= 2 ^ (TopBits - 1))

\* code <<= 7
long_shift(d) == long_wrap(<<0>> \o d)

\* The shift moves a set bit into or past the sign, or shifts a negative
\* number: no long is its result.
shift_overflows(d) == long_exceeded(<<0>> \o d)

\* code += c from digit i on, c being the carry into it.
RECURSIVE long_carry(_, _, _)
long_carry(d, i, c) ==
  IF c = 0 THEN d
  ELSE IF i > Len(d) THEN long_carry(Append(d, 0), i, c)
  ELSE long_carry([d EXCEPT ![i] = (@ + c) % Radix], i + 1, (d[i] + c) \div Radix)

long_add(d, c) == long_wrap(long_carry(d, 1, c))

\* The digits from the i-th up, read as a number of no sign, modulo b.
RECURSIVE long_mod(_, _, _)
long_mod(d, i, b) ==
  IF i > Len(d) THEN 0 ELSE (long_mod(d, i + 1, b) * Radix + d[i]) % b

\* 2^LongBits modulo b.
wrap_mod(b) ==
  long_mod([i \in 1..(LongDigits + 1) |->
              IF i = LongDigits + 1 THEN 2 ^ TopBits ELSE 0], 1, b)

\* C's % truncates towards zero: the remainder of a negative long is the
\* remainder of its magnitude, negated.
CRem(a, b) ==
  IF long_negative(a)
    THEN -((wrap_mod(b) - long_mod(a, 1, b)) % b)
    ELSE long_mod(a, 1, b)

\* One round of the loop of hash_code: code += key[i], then code <<= 7 unless
\* i is the last of several characters.  acc.code is the accumulator and
\* acc.overflow tells that some shift so far has moved a bit into or past
\* the sign: the shift of a signed long has no defined result then.  It
\* keeps the low bits, or stops the process there in a build that traps on
\* it (acc.trap).
hash_shift(acc, code) ==
  [code |-> long_shift(code), overflow |-> acc.overflow \/ shift_overflows(code),
   trap |-> acc.trap]

hash_step(key, size, i, acc) ==
  IF size = 1 \/ i < size - 1
    THEN hash_shift(acc, long_add(acc.code, key[i + 1]))
    ELSE [acc EXCEPT !.code = long_add(@, key[i + 1])]

\* The rounds i = lo .. hi - 1 in their order, the first half of them and
\* then the rest.
RECURSIVE hash_loop(_, _, _, _, _)
hash_loop(key, size, lo, hi, acc) ==
  IF lo >= hi \/ (acc.trap /\ acc.overflow) THEN acc
  ELSE IF hi = lo + 1 THEN hash_step(key, size, lo, acc)
  ELSE hash_loop(key, size, (lo + hi) \div 2, hi,
                 hash_loop(key, size, lo, (lo + hi) \div 2, acc))

hash_of(key, trap) ==
  hash_loop(key, strlen(key), 0, strlen(key),
            [code |-> <<>>, overflow |-> FALSE, trap |-> trap])

\* hash_code depends on its argument alone: what the loop leaves for the
\* keys of the callers is worked out once and looked up from then on.
Hashes == [key \in ModelKeys, trap \in BOOLEAN |-> hash_of(key, trap)]

hash_run(key, trap) ==
  IF key \in ModelKeys THEN Hashes[key, trap] ELSE hash_of(key, trap)

hash_code(key) == hash_run(key, FALSE).code

\* get_index from the call of hash_code on (h: what the loop left).
index_of(M, h) ==
  IF h.trap /\ h.overflow THEN [m |-> [M EXCEPT !.crashed = TRUE], r |-> D_General_Error]
  ELSE [m |-> M, r |-> CRem(h.code, M.croquette[1].capacity)]

get_index(M, key) ==
  LET M1 == croquette_set_error(M, D_No_Error) IN
  IF M1.croquette = <<>> THEN Fail(M1, D_Uninitialized, D_General_Error)
  ELSE IF InvalidKey(key) THEN Fail(M1, D_Invalid_Key, D_General_Error)
  ELSE index_of(M1, hash_run(key, M1.trap))

Prefix(s, n) == IF Len(s) <= n THEN s ELSE SubSeq(s, 1, n)

\* Faulty variant: no entry ever matches.
is_key_never(entry, key) == FALSE

is_key(entry, key) == Prefix(entry.key, MAX_KEY_SIZE) = Prefix(key, MAX_KEY_SIZE)

\* Faulty variant: looks at the head of the chain only.
find_walk_head(M, walker, key) ==
  IF walker = NULL THEN NULL
  ELSE IF is_key(M.nodes[walker], key) THEN walker
  ELSE NULL

RECURSIVE find_walk(_, _, _)
find_walk(M, walker, key) ==
  IF walker = NULL THEN NULL
  ELSE IF is_key(M.nodes[walker], key) THEN walker
  ELSE find_walk(M, M.nodes[walker].next, key)

\* croquette_find from the bucket index on (gi: what get_index returned).
\* table[index] is read whatever the index: outside the array the read has
\* no defined result; it finds a null pointer there (M.fault = FALSE) or the
\* process dies on what it finds (M.fault = TRUE).
find_at_index(gi, key) ==
  LET index == gi.r
  IN  IF index = D_Error \/ gi.m.crashed THEN [m |-> gi.m, r |-> NULL]
      ELSE IF index < 0 \/ index >= gi.m.croquette[1].capacity
        THEN [m |-> [gi.m EXCEPT !.outside = TRUE, !.crashed = gi.m.fault],
              r |-> NULL]
      ELSE [m |-> gi.m,
            r |-> find_walk(gi.m, gi.m.croquette[1].table[index + 1], key)]

croquette_find(M, key) ==
  LET M1 == croquette_set_error(M, D_No_Error) IN
  IF M1.croquette = <<>> THEN Fail(M1, D_Uninitialized, NULL)
  ELSE IF InvalidKey(key) THEN Fail(M1, D_Invalid_Key, NULL)
  ELSE find_at_index(get_index(M1, key), key)

FreshId(M) ==
  CHOOSE i \in 1..(Cardinality(DOMAIN M.nodes) + 1) :
    /\ i \notin DOMAIN M.nodes
    /\ \A j \in 1..(i - 1) : j \in DOMAIN M.nodes

min(x, y) == IF x < y THEN x ELSE y

\* carrier_create copies at most MAX_KEY_SIZE characters into the key buffer,
\* the terminator only if it is among them: a buffer of MAX_KEY_SIZE
\* characters has none.  strlen of such a key reads on into what lies beyond
\* the buffer, up to the next zero byte (the carrier's beyond: what the
\* allocation happened to be followed by, M.beyond), or the process dies on
\* the read (M.fault).
unterminated(M, entry) == Len(M.nodes[entry].key) = MAX_KEY_SIZE

key_of(M, entry) ==
  IF unterminated(M, entry) THEN M.nodes[entry].key \o M.nodes[entry].beyond
  ELSE M.nodes[entry].key

over_read(M, entry) ==
  IF unterminated(M, entry) /\ M.fault THEN [M EXCEPT !.crashed = TRUE] ELSE M

carrier_create(M, key, value) ==
  LET M1 == croquette_set_error(M, D_No_Error)
      a1 == Calloc(M1)
  IN  IF ~a1.ok THEN Fail(M1, D_Insufficient_Memory, NULL)
      ELSE LET a2 == Calloc(a1.m)
               key_size == min(MAX_KEY_SIZE, strlen(key) + 1)
               id == FreshId(a2.m)
               entry == [key |-> Prefix(key, key_size), value |-> value,
                         next |-> NULL, prev |-> NULL, beyond |-> a2.m.beyond]
           IN  IF ~a2.ok THEN [m |-> [a1.m EXCEPT !.crashed = TRUE], r |-> NULL]
               ELSE [m |-> [a2.m EXCEPT !.nodes =
                              [i \in DOMAIN @ \cup {id} |->
                                 IF i = id THEN entry ELSE @[i]]],
                     r |-> id]

RECURSIVE tail_walk(_, _)
tail_walk(M, walker) ==
  IF M.nodes[walker].next # NULL THEN tail_walk(M, M.nodes[walker].next)
  ELSE walker

insert_at_index(M, index, entry) ==
  LET M1 == croquette_set_error(M, D_No_Error) IN
  IF M1.croquette = <<>> THEN Fail(M1, D_Uninitialized, D_Error)
  ELSE IF index < 0 \/ index > M1.croquette[1].capacity
    THEN Fail([M1 EXCEPT !.invalid = TRUE], D_Invalid_Index, D_Error)
  ELSE LET head == M1.croquette[1].table[index + 1]
           M2 == IF head = NULL
                   THEN [M1 EXCEPT !.croquette[1].table[index + 1] = entry]
                   ELSE LET walker == tail_walk(M1, head)
                        IN  [M1 EXCEPT !.nodes[walker].next = entry,
                                       !.nodes[entry].prev = walker]
       IN  [m |-> [M2 EXCEPT !.croquette[1].size = @ + 1], r |-> D_Success]

free_entry(M, entry) ==
  LET cr == M.croquette
      M1 == IF cr # <<>> /\ entry # NULL /\ cr[1].do_free = D_Do_Free
              THEN [M EXCEPT !.freed = Append(@, M.nodes[entry].value)]
              ELSE M
  IN  [M1 EXCEPT !.nodes = [i \in DOMAIN @ \ {entry} |-> @[i]]]

\* Faulty variant: cuts the chain at the entry, losing what follows it.
unlink_entry_cut(gi, entry) ==
  LET index == gi.r
      e == gi.m.nodes[entry]
      M2 == IF e.prev = NULL
              THEN [gi.m EXCEPT !.croquette[1].table[index + 1] = NULL]
              ELSE [gi.m EXCEPT !.nodes[e.prev].next = NULL]
      M5 == free_entry([M2 EXCEPT !.nodes[entry].next = NULL], entry)
  IN  [m |-> [M5 EXCEPT !.croquette[1].size = @ - 1], r |-> D_Success]

\* Faulty variant: leaves the size as it was.
unlink_entry_no_count(gi, entry) ==
  LET index == gi.r
      e == gi.m.nodes[entry]
      M2 == IF e.prev = NULL
              THEN [gi.m EXCEPT !.croquette[1].table[index + 1] = e.next]
              ELSE [gi.m EXCEPT !.nodes[e.prev].next = e.next]
      M3 == IF e.next # NULL
              THEN [M2 EXCEPT !.nodes[e.next].prev = e.prev]
              ELSE M2
  IN  [m |-> free_entry([M3 EXCEPT !.nodes[entry].next = NULL], entry),
       r |-> D_Success]

\* Faulty variant: bridges around the entry forward only.
unlink_entry_no_back(gi, entry) ==
  LET index == gi.r
      e == gi.m.nodes[entry]
      M2 == IF e.prev = NULL
              THEN [gi.m EXCEPT !.croquette[1].table[index + 1] = e.next]
              ELSE [gi.m EXCEPT !.nodes[e.prev].next = e.next]
      M5 == free_entry([M2 EXCEPT !.nodes[entry].next = NULL], entry)
  IN  [m |-> [M5 EXCEPT !.croquette[1].size = @ - 1], r |-> D_Success]

\* remove_entry from the bucket index on (gi: what get_index returned).
unlink_entry(gi, entry) ==
  LET index == gi.r
      e == gi.m.nodes[entry]
      M2 == IF e.prev = NULL
              THEN [gi.m EXCEPT !.croquette[1].table[index + 1] = e.next]
              ELSE [gi.m EXCEPT !.nodes[e.prev].next = e.next]
      M3 == IF e.next # NULL
              THEN [M2 EXCEPT !.nodes[e.next].prev = e.prev]
              ELSE M2
      M4 == [M3 EXCEPT !.nodes[entry].next = NULL]
      M5 == free_entry(M4, entry)
  IN  [m |-> [M5 EXCEPT !.croquette[1].size = @ - 1], r |-> D_Success]

remove_entry(M, entry) ==
  LET M1 == croquette_set_error(M, D_No_Error) IN
  IF entry = NULL THEN Fail(M1, D_Entry_NULL, D_Error)
  ELSE IF over_read(M1, entry).crashed THEN [m |-> over_read(M1, entry), r |-> D_Error]
  ELSE unlink_entry(get_index(M1, key_of(M1, entry)), entry)

\* The comparator the callers pass (test/croquette_test.c compare_elem): the
\* difference of the two elements' contents, 0 when they are equal.  Value
\* references 1 and 2 are two elements of equal content.
Content(value) == 20 + ((value + 1) \div 2)

\* Faulty variant: compares the references, not what they hold.
value_compare_reference(value1, value2) == value1 - value2

value_compare(value1, value2) == Content(value1) - Content(value2)

RECURSIVE croquette_put(_, _, _)
RECURSIVE perform_rehash(_, _)
RECURSIVE rehash_chain(_, _)
RECURSIVE rehash_buckets(_, _, _, _)
RECURSIVE rehash(_, _)
RECURSIVE put_entry(_, _, _)
RECURSIVE put_carrier(_)
RECURSIVE put_at_index(_, _)
RECURSIVE rehash_moved(_, _)

\* Faulty variant: grows already when the size reaches the threshold.
grow_needed_eager(cr) ==
  \/ cr.size >= (cr.capacity \div 2) + (cr.capacity \div 4)
  \/ cr.size >= cr.capacity

\* Faulty variant: shrinks only below a quarter of the capacity.
shrink_needed_quarter(cr) == cr.size < (cr.capacity \div 4)

\* Faulty variant: grows only when every bucket could hold an entry.
grow_needed_full(cr) == cr.size >= cr.capacity

\* The two tests of rehash(): grow after an insert, shrink after a removal.
grow_needed(cr) ==
  \/ cr.size > (cr.capacity \div 2) + (cr.capacity \div 4)
  \/ cr.size >= cr.capacity

shrink_needed(cr) == cr.size < (cr.capacity \div 2)

rehash_result(pr) ==
  IF pr.r = D_Error THEN [m |-> pr.m, r |-> D_Error]
  ELSE [m |-> pr.m, r |-> D_Success]

\* Faulty variant: never grows after an insert.
rehash_remove_only(M, operation) ==
  LET M1 == croquette_set_error(M, D_No_Error)
      cr == M1.croquette[1]
  IN  IF operation = D_Remove /\ shrink_needed(cr)
        THEN rehash_result(perform_rehash(M1, cr.capacity \div 2))
        ELSE [m |-> M1, r |-> D_Success]

\* Faulty variant: grows by one bucket.
new_capacity_for_one_more(cr, operation) ==
  IF operation = D_Insert /\ grow_needed(cr) THEN cr.capacity + 1
  ELSE IF operation = D_Remove /\ shrink_needed(cr) THEN cr.capacity \div 2
  ELSE 0

\* new_capacity of rehash(): 0 when there is nothing to do.
new_capacity_for(cr, operation) ==
  IF operation = D_Insert /\ grow_needed(cr) THEN cr.capacity * 2
  ELSE IF operation = D_Remove /\ shrink_needed(cr) THEN cr.capacity \div 2
  ELSE 0

rehash(M, operation) ==
  LET M1 == [croquette_set_error(M, D_No_Error) EXCEPT !.assessed = @ + 1]
      cr == M1.croquette[1]
      new_capacity == new_capacity_for(cr, operation)
  IN  IF new_capacity = 0 THEN [m |-> M1, r |-> D_Success]
      ELSE rehash_result(perform_rehash(M1, new_capacity))

update_entry(M, entry, value) ==
  IF value_compare(M.nodes[entry].value, value) # 0
    THEN IF M.croquette[1].free_value = NULL
           THEN [M EXCEPT !.crashed = TRUE]
           ELSE [M EXCEPT !.freed = Append(@, M.nodes[entry].value),
                          !.nodes[entry].value = value]
    ELSE M

\* Faulty variant: inserts and never assesses a rehash.
put_at_index_no_rehash(gi, entry) ==
  IF gi.r = D_Error \/ gi.m.crashed THEN [m |-> gi.m, r |-> D_Error]
  ELSE [m |-> insert_at_index(gi.m, gi.r, entry).m, r |-> D_Success]

\* croquette_put after get_index (gi): insert, assess the rehash.
put_at_index(gi, entry) ==
  IF gi.r = D_Error \/ gi.m.crashed THEN [m |-> gi.m, r |-> D_Error]
  ELSE rehash_result(rehash(insert_at_index(gi.m, gi.r, entry).m, D_Insert))

\* croquette_put after carrier_create (cc).
put_carrier(cc) ==
  IF cc.m.crashed THEN [m |-> cc.m, r |-> D_Error]
  ELSE IF cc.r = NULL THEN Fail(cc.m, D_Insufficient_Memory, D_Error)
  ELSE put_at_index(get_index(over_read(cc.m, cc.r), key_of(cc.m, cc.r)), cc.r)

\* croquette_put after croquette_find (f): update, or create a new entry.
put_entry(f, key, value) ==
  IF f.m.crashed THEN [m |-> f.m, r |-> D_Error]
  ELSE IF f.r # NULL THEN [m |-> update_entry(f.m, f.r, value), r |-> D_Success]
  ELSE put_carrier(carrier_create(f.m, key, value))

croquette_put(M, key, value) ==
  LET M1 == croquette_set_error(M, D_No_Error) IN
  IF M.crashed THEN [m |-> M, r |-> D_Error]
  ELSE IF M1.croquette = <<>> THEN Fail(M1, D_Uninitialized, D_Error)
  ELSE IF InvalidKey(key) THEN Fail(M1, D_Invalid_Key, D_Error)
  ELSE put_entry(croquette_find(M1, key), key, value)

\* Faulty variant: moves the head of a chain only and loses what follows it.
rehash_moved_head(M1, reaper) ==
  IF M1.crashed THEN M1
  ELSE free_entry([M1 EXCEPT !.nodes[reaper].value = NULL], reaper)

rehash_chain_head(M, walker) ==
  IF walker = NULL \/ M.crashed THEN M
  ELSE rehash_moved_head(
         croquette_put(over_read(M, walker), key_of(M, walker),
                       M.nodes[walker].value).m, walker)

\* Faulty variant: frees the old carrier without cutting its value pointer.
rehash_moved_uncut(M1, reaper) ==
  IF M1.crashed THEN M1
  ELSE rehash_chain(free_entry(M1, reaper), M1.nodes[reaper].next)

\* perform_rehash's loop body after the croquette_put (M1): step the walker,
\* cut the value pointer, free the old carrier.
rehash_moved(M1, reaper) ==
  LET next == M1.nodes[reaper].next
      M2 == [M1 EXCEPT !.nodes[reaper].value = NULL]
  IN  IF M1.crashed THEN M1 ELSE rehash_chain(free_entry(M2, reaper), next)

rehash_chain(M, walker) ==
  IF walker = NULL \/ M.crashed THEN M
  ELSE rehash_moved(
         croquette_put(over_read(M, walker), key_of(M, walker),
                       M.nodes[walker].value).m, walker)

rehash_buckets(M, old_sable, old_capacity, i) ==
  IF i >= old_capacity THEN M
  ELSE rehash_buckets(rehash_chain(M, old_sable[i + 1]), old_sable, old_capacity, i + 1)

\* Faulty variant: resizes the bucket array and leaves the entries where
\* they are.
perform_rehash_in_place(M, new_capacity) ==
  [m |-> [M EXCEPT !.croquette[1].table =
                     [i \in 1..new_capacity |-> IF i <= Len(@) THEN @[i] ELSE NULL],
                   !.croquette[1].capacity = new_capacity],
   r |-> D_Success]

\* Faulty variant: swaps the bucket array in before it looks at what calloc
\* returned, and so loses the table when there is no memory.
perform_rehash_unchecked(M, new_capacity) ==
  LET M1 == croquette_set_error(M, D_No_Error) IN
  IF M1.croquette = <<>> THEN Fail(M1, D_Uninitialized, D_Error)
  ELSE IF new_capacity <= 0 THEN Fail(M1, D_Invalid_Capacity, D_Error)
  ELSE LET a == Calloc(M1)
           old_sable == a.m.croquette[1].table
           old_capacity == a.m.croquette[1].capacity
           M2 == [a.m EXCEPT !.croquette[1].table = [i \in 1..new_capacity |-> NULL],
                             !.croquette[1].capacity = new_capacity,
                             !.croquette[1].size = 0]
       IN  IF ~a.ok THEN Fail(M2, D_Insufficient_Memory, D_Error)
           ELSE [m |-> rehash_buckets(M2, old_sable, old_capacity, 0), r |-> D_Success]

perform_rehash(M, new_capacity) ==
  LET M1 == croquette_set_error(M, D_No_Error) IN
  IF M1.croquette = <<>> THEN Fail(M1, D_Uninitialized, D_Error)
  ELSE IF new_capacity <= 0 THEN Fail(M1, D_Invalid_Capacity, D_Error)
  ELSE LET a == Calloc(M1) IN
    IF ~a.ok THEN Fail(M1, D_Insufficient_Memory, D_Error)
    ELSE LET old_sable == a.m.croquette[1].table
             old_capacity == a.m.croquette[1].capacity
             M2 == [a.m EXCEPT !.croquette[1].table = [i \in 1..new_capacity |-> NULL],
                               !.croquette[1].capacity = new_capacity,
                               !.croquette[1].size = 0,
                               !.rehashes = @ + 1]
         IN  [m |-> rehash_buckets(M2, old_sable, old_capacity, 0), r |-> D_Success]

\* Faulty variants of create: without the test of the two functions
\* (checked = FALSE), without the default capacity (defaulted = FALSE).
create_variant(M, initial_capacity, do_free, free_value, compare, checked, defaulted) ==
  LET M1 == croquette_set_error(M, D_No_Error)
      capacity == IF defaulted /\ initial_capacity <= 0
                    THEN CROQUETTE_DEFAULT_INITIAL_SIZE ELSE initial_capacity
  IN
  IF M1.croquette # <<>> THEN Fail(M1, D_Exists, D_Error)
  ELSE IF checked /\ do_free = Croquette_Free_Value /\ free_value = NULL
    THEN Fail(M1, D_FreeValue_Missing, D_Error)
  ELSE IF checked /\ compare = NULL THEN Fail(M1, D_ValueCompare_Missing, D_Error)
  ELSE [m |-> [M1 EXCEPT !.croquette =
                 <<[do_free |-> do_free, size |-> 0, capacity |-> capacity,
                    base_capacity |-> capacity,
                    table |-> [i \in 1..capacity |-> NULL],
                    free_value |-> free_value, value_compare |-> compare,
                    dangling |-> FALSE]>>],
        r |-> D_Success]

croquette_create_unchecked(M, initial_capacity, do_free, free_value, compare) ==
  create_variant(M, initial_capacity, do_free, free_value, compare, FALSE, TRUE)

croquette_create_as_given(M, initial_capacity, do_free, free_value, compare) ==
  create_variant(M, initial_capacity, do_free, free_value, compare, TRUE, FALSE)

croquette_create(M, initial_capacity, do_free, free_value, compare) ==
  LET M1 == croquette_set_error(M, D_No_Error)
      capacity == IF initial_capacity <= 0 THEN CROQUETTE_DEFAULT_INITIAL_SIZE
                  ELSE initial_capacity
  IN
  IF M1.croquette # <<>> THEN Fail(M1, D_Exists, D_Error)
  ELSE IF do_free = Croquette_Free_Value /\ free_value = NULL
    THEN Fail(M1, D_FreeValue_Missing, D_Error)
  ELSE IF compare = NULL THEN Fail(M1, D_ValueCompare_Missing, D_Error)
  ELSE LET a1 == Calloc(M1) IN
    IF ~a1.ok THEN Fail(M1, D_Insufficient_Memory, D_Error)
    ELSE LET a2 == Calloc(a1.m)
             struct == [do_free |-> do_free, size |-> 0, capacity |-> capacity,
                        base_capacity |-> capacity,
                        table |-> [i \in 1..capacity |-> NULL],
                        free_value |-> free_value, value_compare |-> compare,
                        dangling |-> FALSE]
         IN  IF ~a2.ok
               THEN Fail([a1.m EXCEPT !.croquette =
                            <<[struct EXCEPT !.capacity = 0, !.base_capacity = 0,
                                             !.do_free = 0, !.table = <<>>,
                                             !.free_value = NULL,
                                             !.value_compare = NULL,
                                             !.dangling = TRUE]>>],
                         D_Insufficient_Memory, D_Error)
               ELSE [m |-> [a2.m EXCEPT !.croquette = <<struct>>], r |-> D_Success]

croquette_isEmpty(M) ==
  LET M1 == croquette_set_error(M, D_No_Error) IN
  IF M1.croquette = <<>> THEN Fail(M1, D_Uninitialized, D_Error)
  ELSE [m |-> M1, r |-> IF M1.croquette[1].size = 0 THEN 1 ELSE 0]

croquette_size(M) ==
  LET M1 == croquette_set_error(M, D_No_Error) IN
  IF M1.croquette = <<>> THEN Fail(M1, D_Uninitialized, D_Error)
  ELSE [m |-> M1, r |-> M1.croquette[1].size]

croquette_capacity(M) ==
  LET M1 == croquette_set_error(M, D_No_Error) IN
  IF M1.croquette = <<>> THEN Fail(M1, D_Uninitialized, D_Error)
  ELSE [m |-> M1, r |-> M1.croquette[1].capacity]

\* Faulty variant: looks at the key before it looks for the table.
croquette_containsKey_key_first(M, key) ==
  LET M1 == croquette_set_error(M, D_No_Error) IN
  IF InvalidKey(key) THEN Fail(M1, D_Invalid_Key, D_Error)
  ELSE IF M1.croquette = <<>> THEN Fail(M1, D_Uninitialized, D_Error)
  ELSE LET f == croquette_find(M1, key)
       IN  [m |-> f.m, r |-> IF f.r # NULL THEN 1 ELSE 0]

croquette_containsKey(M, key) ==
  LET M1 == croquette_set_error(M, D_No_Error) IN
  IF M1.croquette = <<>> THEN Fail(M1, D_Uninitialized, D_Error)
  ELSE IF InvalidKey(key) THEN Fail(M1, D_Invalid_Key, D_Error)
  ELSE LET f == croquette_find(M1, key)
       IN  [m |-> f.m, r |-> IF f.r # NULL THEN 1 ELSE 0]

\* Faulty variant: reports a key that is not stored as an error.
croquette_get_no_value(M, key) ==
  LET M1 == croquette_set_error(M, D_No_Error) IN
  IF M1.croquette = <<>> THEN Fail(M1, D_Uninitialized, NULL)
  ELSE IF InvalidKey(key) THEN Fail(M1, D_Invalid_Key, NULL)
  ELSE LET f == croquette_find(M1, key)
       IN  IF f.r # NULL THEN [m |-> f.m, r |-> f.m.nodes[f.r].value]
           ELSE Fail(f.m, D_No_Value, NULL)

\* Faulty variant: takes the entry it found out of the table.
croquette_get_taking(M, key) ==
  LET M1 == croquette_set_error(M, D_No_Error) IN
  IF M1.croquette = <<>> THEN Fail(M1, D_Uninitialized, NULL)
  ELSE IF InvalidKey(key) THEN Fail(M1, D_Invalid_Key, NULL)
  ELSE LET f == croquette_find(M1, key)
       IN  IF f.r = NULL THEN [m |-> f.m, r |-> NULL]
           ELSE [m |-> remove_entry(f.m, f.r).m, r |-> f.m.nodes[f.r].value]

croquette_get(M, key) ==
  LET M1 == croquette_set_error(M, D_No_Error) IN
  IF M1.croquette = <<>> THEN Fail(M1, D_Uninitialized, NULL)
  ELSE IF InvalidKey(key) THEN Fail(M1, D_Invalid_Key, NULL)
  ELSE LET f == croquette_find(M1, key)
       IN  [m |-> f.m, r |-> IF f.r # NULL THEN f.m.nodes[f.r].value ELSE NULL]

RECURSIVE clear_chain(_, _)
clear_chain(M, walker) ==
  IF walker = NULL THEN M
  ELSE LET reaper == walker
           next == M.nodes[walker].next
       IN  clear_chain(remove_entry(M, reaper).m, next)

RECURSIVE clear_buckets(_, _)
clear_buckets(M, i) ==
  IF i >= M.croquette[1].capacity THEN M
  ELSE LET M1 == clear_chain(M, M.croquette[1].table[i + 1])
       IN  clear_buckets([M1 EXCEPT !.croquette[1].table[i + 1] = NULL], i + 1)

\* Faulty variant: empties the table at the capacity it has.
croquette_clear_in_place(M) ==
  LET M1 == croquette_set_error(M, D_No_Error) IN
  IF M1.croquette = <<>> THEN Fail(M1, D_Uninitialized, D_Error)
  ELSE LET M2 == clear_buckets(M1, 0)
       IN  perform_rehash(M2, M2.croquette[1].capacity)

croquette_clear(M) ==
  LET M1 == croquette_set_error(M, D_No_Error) IN
  IF M1.croquette = <<>> THEN Fail(M1, D_Uninitialized, D_Error)
  ELSE LET M2 == clear_buckets(M1, 0)
       IN  perform_rehash(M2, M2.croquette[1].base_capacity)

\* Faulty variant: assesses a rehash although no entry was removed.
croquette_remove_always_rehash(M, key) ==
  LET M1 == croquette_set_error(M, D_No_Error) IN
  IF M1.croquette = <<>> THEN Fail(M1, D_Uninitialized, D_Error)
  ELSE IF InvalidKey(key) THEN Fail(M1, D_Invalid_Key, D_Error)
  ELSE LET f == croquette_find(M1, key)
           M2 == IF f.r = NULL THEN f.m ELSE remove_entry(f.m, f.r).m
       IN  rehash_result(rehash(M2, D_Remove))

croquette_remove(M, key) ==
  LET M1 == croquette_set_error(M, D_No_Error) IN
  IF M1.croquette = <<>> THEN Fail(M1, D_Uninitialized, D_Error)
  ELSE IF InvalidKey(key) THEN Fail(M1, D_Invalid_Key, D_Error)
  ELSE LET f == croquette_find(M1, key) IN
    IF f.r = NULL THEN [m |-> f.m, r |-> D_Success]
    ELSE rehash_result(rehash(remove_entry(f.m, f.r).m, D_Remove))

\* Faulty variant: clears the table and keeps it.
destroy_cleared_kept(c) == c.m

\* croquette_destroy after croquette_clear (c).
destroy_cleared(c) ==
  IF c.r = D_Error THEN c.m
  ELSE IF c.m.croquette # <<>> THEN [c.m EXCEPT !.croquette = <<>>]
  ELSE c.m

croquette_destroy(M) ==
  IF M.croquette = <<>> THEN M ELSE destroy_cleared(croquette_clear(M))

\* ------------------------------------------- declared in inc/croquette.h
\* croquette_containsValue, croquette_getOrDefault and croquette_putIfAbsent
\* are declared in inc/croquette.h and called by test/croquette_test.c; their
\* bodies are not in src/ and follow the specification's text.

\* One chain of the linear scan: does an entry's value compare equal?
RECURSIVE value_walk(_, _, _)
value_walk(M, walker, value) ==
  IF walker = NULL THEN FALSE
  ELSE \/ value_compare(M.nodes[walker].value, value) = 0
       \/ value_walk(M, M.nodes[walker].next, value)

RECURSIVE value_scan(_, _, _)
value_scan(M, value, i) ==
  IF i >= M.croquette[1].capacity THEN FALSE
  ELSE \/ value_walk(M, M.croquette[1].table[i + 1], value)
       \/ value_scan(M, value, i + 1)

croquette_containsValue(M, value) ==
  LET M1 == croquette_set_error(M, D_No_Error) IN
  IF M1.croquette = <<>> THEN Fail(M1, D_Uninitialized, D_Error)
  ELSE IF value = NULL THEN Fail(M1, D_Invalid_Value, D_Error)
  ELSE [m |-> M1, r |-> IF value_scan(M1, value, 0) THEN 1 ELSE 0]

\* croquette_getOrDefault after croquette_find (f).
default_unless_found(f, default_value) ==
  [m |-> f.m, r |-> IF f.r # NULL THEN f.m.nodes[f.r].value ELSE default_value]

croquette_getOrDefault(M, key, default_value) ==
  LET M1 == croquette_set_error(M, D_No_Error) IN
  IF M1.croquette = <<>> THEN Fail(M1, D_Uninitialized, NULL)
  ELSE IF InvalidKey(key) THEN Fail(M1, D_Invalid_Key, NULL)
  ELSE default_unless_found(croquette_find(M1, key), default_value)

\* croquette_putIfAbsent after croquette_find (f): the stored value, or the
\* insertion of croquette_put and NULL.
put_unless_found(f, key, value) ==
  IF f.r # NULL THEN [m |-> f.m, r |-> f.m.nodes[f.r].value]
  ELSE [m |-> croquette_put(f.m, key, value).m, r |-> NULL]

croquette_putIfAbsent(M, key, value) ==
  LET M1 == croquette_set_error(M, D_No_Error) IN
  IF M1.croquette = <<>> THEN Fail(M1, D_Uninitialized, NULL)
  ELSE IF InvalidKey(key) THEN Fail(M1, D_Invalid_Key, NULL)
  ELSE put_unless_found(croquette_find(M1, key), key, value)


\* ------------------------------------------------------------ the callers
\* The callbacks the callers pass (test/croquette_test.c), or NULL.
free_elem == 1
compare_elem == 1

KeyList == <<K_aaa, K_bee, K_eff, K_a, K_cee>>
Keys == {KeyList[i] : i \in 1..NumKeys}
KeyArgs == Keys \cup {K_empty, NullKey}
\* Three elements: 1 and 2 of equal content, 3 of another.
Values == {1, 2, 3}

\* The capacity the tests create their tables with.
InitCaps == {1}

SeqKeyList == <<K_aaa, K_bee, K_cee, K_eee, K_eff, K_dab, K_egg, K_hid>>
\* The tests' capacity and one that is no power of two.
SeqCaps == {1, 6}
SeqKeys == {SeqKeyList[i] : i \in 1..NumSeqKeys}
\* The keys of the put/remove/clear sequences.
TableKeys == {SeqKeyList[i] : i \in 1..NumTableKeys}
\* In the put sequences each key comes with an element of its own.
SeqValue(key) == CHOOSE i \in 1..Len(SeqKeyList) : SeqKeyList[i] = key

\* The machine at the start of a call.
Mach(faulty, heap) ==
  [croquette |-> croquette, nodes |-> nodes, croquette_error |-> croquette_error,
   freed |-> <<>>, crashed |-> FALSE, faulty |-> faulty, heap |-> heap,
   assessed |-> 0, rehashes |-> 0, outside |-> FALSE, invalid |-> FALSE,
   trap |-> FALSE, fault |-> FALSE, beyond |-> <<>>]

\* The machine of a build that traps on an overflowing shift (trap) and in
\* which a read outside the bucket array kills the process (fault).
MachUB(trap, fault) == [Mach(FALSE, 0) EXCEPT !.trap = trap, !.fault = fault]

NoWork == [assessed |-> 0, rehashes |-> 0, outside |-> FALSE, invalid |-> FALSE]

Live == croquette # <<>>
\* croquette points at a struct that create has freed.
Dangling == Live /\ croquette[1].dangling
Lookup(key) == croquette_get(Mach(FALSE, 0), key).r
Stored(key) == croquette_containsKey(Mach(FALSE, 0), key).r = 1

\* The keys some carrier holds.
StoredKeys == {nodes[i].key : i \in DOMAIN nodes}

Snapshot ==
  [live |-> Live,
   size |-> IF Live THEN croquette[1].size ELSE 0,
   capacity |-> IF Live THEN croquette[1].capacity ELSE 0,
   base_capacity |-> IF Live THEN croquette[1].base_capacity ELSE 0,
   do_free |-> IF Live THEN croquette[1].do_free ELSE 0,
   free_value |-> IF Live THEN croquette[1].free_value ELSE NULL,
   value_compare |-> IF Live THEN croquette[1].value_compare ELSE NULL,
   content |-> [k \in StoredKeys |-> Lookup(k)]]

\* Addresses are not observable by the program: after a call the carriers
\* are renamed 1, 2, ... in the order of a walk of the table (bucket by
\* bucket, each chain from its head), carriers no bucket reaches last.
RECURSIVE chain_ids(_, _, _)
chain_ids(M, walker, seen) ==
  IF walker = NULL \/ walker \notin DOMAIN M.nodes \/ walker \in seen THEN <<>>
  ELSE <<walker>> \o chain_ids(M, M.nodes[walker].next, seen \cup {walker})

RECURSIVE table_ids(_, _)
table_ids(M, i) ==
  IF M.croquette = <<>> \/ i > Len(M.croquette[1].table) THEN <<>>
  ELSE chain_ids(M, M.croquette[1].table[i], {}) \o table_ids(M, i + 1)

RECURSIVE sorted_ids(_)
sorted_ids(S) ==
  IF S = {} THEN <<>>
  ELSE LET lo == CHOOSE x \in S : \A y \in S : x <= y
       IN  <<lo>> \o sorted_ids(S \ {lo})

Canon(M) ==
  LET reach == table_ids(M, 1)
      inTable == {reach[j] : j \in 1..Len(reach)}
      order == reach \o sorted_ids(DOMAIN M.nodes \ inTable)
      pos == [p \in DOMAIN M.nodes |-> CHOOSE j \in 1..Len(order) : order[j] = p]
      name(p) == IF p = NULL THEN NULL
                 ELSE IF p \in DOMAIN pos THEN pos[p] ELSE -1
  IN  IF Len(order) # Cardinality(DOMAIN M.nodes)
           \/ \A j \in 1..Len(order) : order[j] = j
        THEN M
        ELSE [M EXCEPT
               !.nodes = [j \in 1..Len(order) |->
                            [M.nodes[order[j]] EXCEPT !.next = name(@), !.prev = name(@)]],
               !.croquette = IF @ = <<>> THEN @
                             ELSE <<[@[1] EXCEPT !.table =
                                       [i \in 1..Len(@) |-> name(@[i])]]>>]

\* Where the entry of a key sits in its bucket chain.
place_of(M, entry) ==
  IF entry = NULL THEN "none"
  ELSE IF M.nodes[entry].prev = NULL
    THEN IF M.nodes[entry].next = NULL THEN "only" ELSE "first"
  ELSE IF M.nodes[entry].next = NULL THEN "last" ELSE "middle"

Place(key) == place_of(Mach(FALSE, 0), croquette_find(Mach(FALSE, 0), key).r)

\* One public call: the state it leaves, what it returned, what it found.
Step(res, op, key, value) ==
  /\ ~crashed
  /\ Dangling => op = "create"
  /\ LET m == Canon(res.m) IN
       /\ croquette' = m.croquette
       /\ nodes' = m.nodes
       /\ croquette_error' = m.croquette_error
       /\ freed' = m.freed
       /\ crashed' = m.crashed
  /\ ret' = res.r
  /\ call' = [op |-> op, key |-> key, value |-> value, place |-> Place(key)]
  /\ pre' = Snapshot
  /\ destroyed' = (destroyed \/ (op = "destroy" /\ Live /\ res.m.croquette = <<>>))
  /\ work' = [assessed |-> res.m.assessed, rehashes |-> res.m.rehashes,
              outside |-> res.m.outside, invalid |-> res.m.invalid]

Init ==
  /\ croquette = <<>>
  /\ nodes = [i \in {} |-> NULL]
  /\ croquette_error = D_No_Error
  /\ freed = <<>>
  /\ crashed = FALSE
  /\ ret = D_Success
  /\ call = [op |-> "start", key |-> NullKey, value |-> NULL, place |-> "none"]
  /\ pre = Snapshot
  /\ destroyed = FALSE
  /\ work = NoWork

Create(initial_capacity, do_free, free_value, compare) ==
  Step(croquette_create(Mach(FALSE, 0), initial_capacity, do_free, free_value, compare),
       "create", NullKey, <<initial_capacity, do_free, free_value, compare>>)

IsEmpty == Step(croquette_isEmpty(Mach(FALSE, 0)), "isEmpty", NullKey, NULL)
Size == Step(croquette_size(Mach(FALSE, 0)), "size", NullKey, NULL)
Capacity == Step(croquette_capacity(Mach(FALSE, 0)), "capacity", NullKey, NULL)
ContainsKey(key) == Step(croquette_containsKey(Mach(FALSE, 0), key), "containsKey", key, NULL)
Get(key) == Step(croquette_get(Mach(FALSE, 0), key), "get", key, NULL)
Put(key, value) == Step(croquette_put(Mach(FALSE, 0), key, value), "put", key, value)
Remove(key) == Step(croquette_remove(Mach(FALSE, 0), key), "remove", key, NULL)
Clear == Step(croquette_clear(Mach(FALSE, 0)), "clear", NullKey, NULL)
Destroy ==
  Step([m |-> croquette_destroy(Mach(FALSE, 0)), r |-> D_Success], "destroy", NullKey, NULL)

Next ==
  \/ \E c \in InitCaps, d \in {D_No_Free, D_Do_Free},
        f \in {NULL, free_elem}, e \in {NULL, compare_elem} : Create(c, d, f, e)
  \/ IsEmpty
  \/ Size
  \/ Capacity
  \/ \E k \in KeyArgs : ContainsKey(k)
  \/ \E k \in KeyArgs : Get(k)
  \/ \E k \in KeyArgs, v \in Values : Put(k, v)
  \/ \E k \in KeyArgs : Remove(k)
  \/ Clear
  \/ Destroy

Spec == Init /\ [][Next]_vars

\* The callers of the put/remove sequences: one owning table, every key
\* with its own element.
NextSeq ==
  \/ \E c \in SeqCaps : Create(c, D_Do_Free, free_elem, compare_elem)
  \/ \E k \in TableKeys : Put(k, SeqValue(k))
  \/ \E k \in TableKeys : Remove(k)
  \/ Clear

SpecSeq == Init /\ [][NextSeq]_vars

\* Only puts after create(1): the growth sequence of the tests.
NextGrow ==
  \/ Create(1, D_Do_Free, free_elem, compare_elem)
  \/ \E k \in SeqKeys : Put(k, SeqValue(k))

SpecGrow == Init /\ [][NextGrow]_vars

\* The capacities handed to create, the default request included.
CreateCaps == {-1, 0, 1, 3}

\* Tables created and destroyed over and over, with every argument of create.
NextCreate ==
  \/ \E c \in CreateCaps, d \in {D_No_Free, D_Do_Free},
        f \in {NULL, free_elem}, e \in {NULL, compare_elem} : Create(c, d, f, e)
  \/ \E k \in Keys : Put(k, SeqValue(k))
  \/ Size
  \/ Capacity
  \/ Destroy

SpecCreate == Init /\ [][NextCreate]_vars

\* Calls during which no allocation succeeds.
ClearNoMemory == Step(croquette_clear(Mach(TRUE, 0)), "clear", NullKey, "no memory")
DestroyNoMemory ==
  Step([m |-> croquette_destroy(Mach(TRUE, 0)), r |-> D_Success],
       "destroy", NullKey, "no memory")

\* Calls during which the first n allocations succeed and the others fail.
HeapLeft == 0..3
PutNoMemory(key, n) ==
  Step(croquette_put(Mach(TRUE, n), key, SeqValue(key)), "put", key, SeqValue(key))
RemoveNoMemory(key, n) ==
  Step(croquette_remove(Mach(TRUE, n), key), "remove", key, NULL)
CreateNoMemory(initial_capacity, n) ==
  Step(croquette_create(Mach(TRUE, n), initial_capacity, D_Do_Free, free_elem, compare_elem),
       "create", NullKey, <<initial_capacity, D_Do_Free, free_elem, compare_elem>>)

\* The operations that read the struct croquette points at.
StructOps ==
  {"isEmpty", "size", "capacity", "containsKey", "get", "put", "remove",
   "clear", "destroy"}

\* A call that reads a freed struct has no defined outcome: it may die, it
\* may return anything, and destroy may reset the pointer.
UseAfterFree(op, died, r, reset) ==
  /\ ~crashed
  /\ Dangling
  /\ reset => op = "destroy" /\ ~died
  /\ croquette' = IF reset THEN <<>> ELSE croquette
  /\ crashed' = died
  /\ ret' = r
  /\ call' = [op |-> op, key |-> NullKey, value |-> NULL, place |-> "none"]
  /\ pre' = Snapshot
  /\ freed' = <<>>
  /\ work' = NoWork
  /\ UNCHANGED <<nodes, croquette_error, destroyed>>

\* An owning table whose calls may run out of memory.
NextFault ==
  \/ \E c \in SeqCaps : Create(c, D_Do_Free, free_elem, compare_elem)
  \/ \E k \in Keys : Put(k, SeqValue(k))
  \/ \E k \in Keys : Remove(k)
  \/ \E k \in Keys : Get(k)
  \/ Clear
  \/ Destroy
  \/ ClearNoMemory
  \/ DestroyNoMemory
  \/ \E k \in Keys, n \in HeapLeft : PutNoMemory(k, n)
  \/ \E k \in Keys, n \in {0, 1} : RemoveNoMemory(k, n)
  \/ \E c \in SeqCaps, n \in {0, 1} : CreateNoMemory(c, n)
  \/ \E op \in StructOps, died \in BOOLEAN, r \in {D_Error, D_Success},
        reset \in BOOLEAN : UseAfterFree(op, died, r, reset)

SpecFault == Init /\ [][NextFault]_vars

\* The callers of the three functions built on find and put: an owning
\* table, any element under any key.
ContainsValue(value) ==
  Step(croquette_containsValue(Mach(FALSE, 0), value), "containsValue", NullKey, value)
GetOrDefault(key, default_value) ==
  Step(croquette_getOrDefault(Mach(FALSE, 0), key, default_value),
       "getOrDefault", key, default_value)
PutIfAbsent(key, value) ==
  Step(croquette_putIfAbsent(Mach(FALSE, 0), key, value), "putIfAbsent", key, value)

NextMap ==
  \/ \E c \in SeqCaps : Create(c, D_Do_Free, free_elem, compare_elem)
  \/ \E k \in Keys : Remove(k)
  \/ \E v \in Values \cup {NULL} : ContainsValue(v)
  \/ \E k \in KeyArgs, v \in Values : GetOrDefault(k, v)
  \/ \E k \in KeyArgs, v \in Values : PutIfAbsent(k, v)

SpecMap == Init /\ [][NextMap]_vars

\* An owning table whose keys get any element, so that a Put may replace
\* the value of a key.
NextOwn ==
  \/ \E c \in SeqCaps : Create(c, D_Do_Free, free_elem, compare_elem)
  \/ \E k \in Keys, v \in Values : Put(k, v)
  \/ \E k \in Keys : Remove(k)
  \/ Clear
  \/ Destroy

SpecOwn == Init /\ [][NextOwn]_vars

\* The callers of the error slot (test/croquette_test.c test_print_errors
\* sets every code): the codes of the enum, and one below and one above.
ErrorCodes == (D_No_Error - 1)..(D_Num_Errors + 1)
SetError(error) ==
  Step([m |-> croquette_set_error(Mach(FALSE, 0), error), r |-> NULL],
       "set_error", NullKey, error)
GetError ==
  Step([m |-> Mach(FALSE, 0), r |-> croquette_get_error(Mach(FALSE, 0))],
       "get_error", NullKey, NULL)

NextError ==
  \/ Create(1, D_Do_Free, free_elem, compare_elem)
  \/ \E k \in KeyArgs : Put(k, 1)
  \/ \E k \in KeyArgs : Get(k)
  \/ Destroy
  \/ \E e \in ErrorCodes : SetError(e)
  \/ GetError

SpecError == Init /\ [][NextError]_vars

\* The hash of a key and its bucket index, for keys of one to ten
\* characters, some of them the same characters in another order, and every
\* capacity up to MaxHashCap.
HashKeys ==
  {K_a, K_b, K_ab, K_ba, K_aaa, K_bee, K_abcd, K_dcba, K_nine, K_ten_a, K_ten_b,
   K_ten_d}
HashCaps == 1..MaxHashCap

\* hash_code as get_index calls it.
hash_result(M, h) ==
  IF h.trap /\ h.overflow THEN [m |-> [M EXCEPT !.crashed = TRUE], r |-> <<>>]
  ELSE [m |-> M, r |-> h.code]

hash_call(M, key) == hash_result(M, hash_run(key, M.trap))

HashCode(key, trap) ==
  Step(hash_call(MachUB(trap, FALSE), key), "hash_code", key, NULL)
GetIndex(key, trap) ==
  Step(get_index(MachUB(trap, FALSE), key), "get_index", key, NULL)

NextHash ==
  \/ \E c \in HashCaps : Create(c, D_Do_Free, free_elem, compare_elem)
  \/ Destroy
  \/ \E k \in HashKeys, t \in BOOLEAN : HashCode(k, t)
  \/ \E k \in HashKeys, t \in BOOLEAN : GetIndex(k, t)

SpecHash == Init /\ [][NextHash]_vars

\* Long keys in tables of one and four buckets.
LongKeyList == <<K_nine, K_ten_a, K_ten_d>>
LongKeys == {LongKeyList[i] : i \in 1..Len(LongKeyList)}
LongCaps == {1, 4}
LongValue(key) == CHOOSE i \in 1..Len(LongKeyList) : LongKeyList[i] = key

\* A put whose insertion fails leaves its carrier allocated for good: the
\* puts stop at MaxCarriers carriers.
PutLong(key, trap, fault) ==
  /\ Cardinality(DOMAIN nodes) < MaxCarriers
  /\ Step(croquette_put(MachUB(trap, fault), key, LongValue(key)), "put", key, LongValue(key))
GetLong(key, trap, fault) ==
  Step(croquette_get(MachUB(trap, fault), key), "get", key, NULL)
RemoveLong(key, trap, fault) ==
  Step(croquette_remove(MachUB(trap, fault), key), "remove", key, NULL)

NextLong ==
  \/ \E c \in LongCaps : Create(c, D_Do_Free, free_elem, compare_elem)
  \/ \E k \in LongKeys, t \in BOOLEAN, f \in BOOLEAN : PutLong(k, t, f)
  \/ \E k \in LongKeys, t \in BOOLEAN, f \in BOOLEAN : GetLong(k, t, f)
  \/ \E k \in LongKeys, t \in BOOLEAN, f \in BOOLEAN : RemoveLong(k, t, f)
  \/ \E k \in LongKeys, t \in BOOLEAN : GetIndex(k, t)
  \/ Destroy

SpecLong == Init /\ [][NextLong]_vars

\* Keys of MAX_KEY_SIZE - 1 to MAX_KEY_SIZE + 1 characters in tables of one
\* and four buckets.
CutKeyList == <<K_254, K_256x, K_256y>>
CutKeys == {CutKeyList[i] : i \in 1..Len(CutKeyList)}
CutCaps == {1, 4}
Outcomes == [trap : BOOLEAN, fault : BOOLEAN, beyond : Beyond]
MachCut(o) == [MachUB(o.trap, o.fault) EXCEPT !.beyond = o.beyond]

PutCut(key, value, o) ==
  /\ Cardinality(DOMAIN nodes) < MaxCarriers
  /\ Step(croquette_put(MachCut(o), key, value), "put", key, value)
GetCut(key, trap) == Step(croquette_get(MachUB(trap, FALSE), key), "get", key, NULL)
RemoveCut(key, o) == Step(croquette_remove(MachCut(o), key), "remove", key, NULL)

NextCut ==
  \/ \E c \in CutCaps : Create(c, D_Do_Free, free_elem, compare_elem)
  \/ \E k \in CutKeys, v \in {1, 3}, o \in Outcomes : PutCut(k, v, o)
  \/ \E k \in CutKeys, t \in BOOLEAN : GetCut(k, t)
  \/ \E k \in CutKeys, o \in Outcomes : RemoveCut(k, o)

SpecCut == Init /\ [][NextCut]_vars

\* ----------------------------------------------------------- observations
CurSize == IF Live THEN croquette[1].size ELSE 0
CurCapacity == IF Live THEN croquette[1].capacity ELSE 0
CurBase == IF Live THEN croquette[1].base_capacity ELSE 0
Contents == [k \in StoredKeys |-> Lookup(k)]
PreVal(key) == IF key \in DOMAIN pre.content THEN pre.content[key] ELSE NULL
Returned(op) == call.op = op /\ ~crashed
\* The last call was op on a live table with a valid key.
KeyCall(op) == Returned(op) /\ pre.live /\ ~InvalidKey(call.key)
Threshold(capacity) == (capacity \div 2) + (capacity \div 4)

\* ------------------------------------------------------------------ C1
\* C1 as stated: after a successful Put(k, v), ContainsKey(k) is true and
\* Get(k) returns v.
C1_PutThenGetReturnsV ==
  (KeyCall("put") /\ ret = D_Success) =>
     Stored(call.key) /\ Lookup(call.key) = call.value

\* C1 as amended: after a successful Put(k, v), ContainsKey(k) is true and
\* Get(k) returns v, or the reference stored before when k was already
\* stored with a value the comparator reports equal to v; and a Put or a
\* Remove of another key, with any grow or shrink rehash it triggers, leaves
\* every other stored key stored with the value it had.
C1_PutStoresOthersKeep ==
  /\ (KeyCall("put") /\ ret = D_Success) =>
        /\ Stored(call.key)
        /\ Lookup(call.key) =
             IF PreVal(call.key) # NULL
                  /\ value_compare(PreVal(call.key), call.value) = 0
               THEN PreVal(call.key) ELSE call.value
  /\ (Returned("put") \/ Returned("remove")) =>
        \A k \in DOMAIN pre.content :
           k # call.key => Stored(k) /\ Lookup(k) = pre.content[k]

\* A Put of a new key doubled the capacity and an older key kept its value.
C1_Witness ==
  /\ KeyCall("put") /\ ret = D_Success
  /\ PreVal(call.key) = NULL
  /\ CurCapacity = 2 * pre.capacity
  /\ \E k \in DOMAIN pre.content : Stored(k) /\ Lookup(k) = pre.content[k]

\* ------------------------------------------------------------------ C2
\* C2: a Put of an absent key into a table of size s and capacity c ends
\* with size s+1, and with capacity 2c if s+1 > (c>>1)+(c>>2) or s+1 >= c,
\* else with capacity c.
C2_PutGrowPolicy ==
  (KeyCall("put") /\ PreVal(call.key) = NULL) =>
     /\ CurSize = pre.size + 1
     /\ CurCapacity =
          IF pre.size + 1 > Threshold(pre.capacity) \/ pre.size + 1 >= pre.capacity
            THEN 2 * pre.capacity ELSE pre.capacity

\* A Put doubled a capacity that is no power of two.
C2_Witness ==
  /\ KeyCall("put") /\ PreVal(call.key) = NULL
  /\ pre.capacity = 6 /\ CurCapacity = 12 /\ CurSize = 5

\* ------------------------------------------------------------------ C3
PairCaps == <<2, 4, 4, 8, 8, 8, 16>>

\* C3: from create(1), the n-th distinct key put leaves size n and capacity
\* 2, 4, 4, 8, 8, 8, 16 for n = 1..7; a Put of a stored key with the value
\* it has changes neither size nor capacity.
C3_GrowthSequence ==
  /\ (Live /\ CurSize \in 1..7) => CurCapacity = PairCaps[CurSize]
  /\ (Live /\ CurSize = 0) => CurCapacity = 1
  /\ (KeyCall("put") /\ PreVal(call.key) # NULL) =>
        CurSize = pre.size /\ CurCapacity = pre.capacity

\* The seventh distinct key was put.
C3_Witness ==
  KeyCall("put") /\ PreVal(call.key) = NULL /\ CurSize = 7 /\ CurCapacity = 16

\* ------------------------------------------------------------------ C4
\* C4: a Remove of a stored key from a table of size s and capacity c ends
\* with size s-1, and with capacity c>>1 if s-1 < (c>>1), else c; the
\* capacity never drops below 1.
C4_RemoveShrinkPolicy ==
  /\ (KeyCall("remove") /\ PreVal(call.key) # NULL) =>
        /\ CurSize = pre.size - 1
        /\ CurCapacity =
             IF pre.size - 1 < (pre.capacity \div 2)
               THEN pre.capacity \div 2 ELSE pre.capacity
  /\ Live => CurCapacity >= 1

\* ------------------------------------------------------------------ C5
\* C5: in a table created with capacity 1, a Remove of a stored key takes
\* (size, capacity) from (5,8) to (4,8), from (4,8) to (3,4) and from (3,4)
\* to (2,4), and a Put of a new key takes (2,4) to (3,4).
C5_ShrinkSequence ==
  LET from(s, c) == pre.live /\ pre.base_capacity = 1 /\ pre.size = s /\ pre.capacity = c
      to(s, c) == CurSize = s /\ CurCapacity = c
      removed == KeyCall("remove") /\ PreVal(call.key) # NULL
      added == KeyCall("put") /\ PreVal(call.key) = NULL
  IN  /\ (removed /\ from(5, 8)) => to(4, 8)
      /\ (removed /\ from(4, 8)) => to(3, 4)
      /\ (removed /\ from(3, 4)) => to(2, 4)
      /\ (added /\ from(2, 4)) => to(3, 4)

\* A Remove halved the capacity from 8 to 4, leaving three keys.
C5_Witness ==
  /\ KeyCall("remove") /\ PreVal(call.key) # NULL
  /\ pre.base_capacity = 1 /\ pre.size = 4 /\ pre.capacity = 8
  /\ CurSize = 3 /\ CurCapacity = 4

\* ------------------------------------------------------------------ C6
\* C6: a Remove of a valid key that is not stored returns success and
\* changes neither size nor capacity nor any stored key or value; a Remove
\* leaves its key absent, so a second Remove of it changes nothing.
C6_RemoveAbsentNoEffect ==
  /\ (KeyCall("remove") /\ PreVal(call.key) = NULL) =>
        /\ ret = D_Success
        /\ CurSize = pre.size /\ CurCapacity = pre.capacity
        /\ CurBase = pre.base_capacity
        /\ Contents = pre.content
        /\ freed = <<>>
  /\ (KeyCall("remove") /\ ret = D_Success) => ~Stored(call.key)

\* A Remove of an absent key on a table that holds another key.
C6_Witness ==
  /\ KeyCall("remove") /\ PreVal(call.key) = NULL /\ ret = D_Success
  /\ CurSize >= 1 /\ Contents = pre.content

\* ------------------------------------------------------------------ C7
\* C7: a Put(k, v) on a stored key returns success and changes neither size
\* nor capacity; afterwards Get(k) returns v if the comparator reports the
\* old and the new value different, else the reference stored before.
C7_PutExistingKey ==
  (call.op = "put" /\ pre.live /\ ~InvalidKey(call.key) /\ PreVal(call.key) # NULL) =>
     /\ ~crashed
     /\ ret = D_Success
     /\ CurSize = pre.size /\ CurCapacity = pre.capacity
     /\ Lookup(call.key) =
          IF value_compare(PreVal(call.key), call.value) # 0
            THEN call.value ELSE PreVal(call.key)

\* ------------------------------------------------------------------ C8
\* C8: when a Put replaces the value of a stored key, the old value goes to
\* the release function if and only if the table owns its values; without
\* ownership the Put releases nothing, calls no release function, succeeds.
C8_ReleaseOnUpdateIffOwned ==
  (call.op = "put" /\ pre.live /\ ~InvalidKey(call.key) /\ PreVal(call.key) # NULL
     /\ value_compare(PreVal(call.key), call.value) # 0) =>
     /\ ~crashed
     /\ ret = D_Success
     /\ freed = IF pre.do_free = D_Do_Free THEN <<PreVal(call.key)>> ELSE <<>>

\* ------------------------------------------------------------------ C9
\* C9: Clear on a live table returns success and leaves size 0, no stored
\* key and the capacity given at creation; Put, Remove and Clear never
\* change the base capacity; a Put on the cleared table of base 1 gives
\* size 1, capacity 2.
C9_ClearResetsToBase ==
  /\ (Returned("clear") /\ pre.live) =>
        /\ ret = D_Success
        /\ CurSize = 0 /\ StoredKeys = {}
        /\ \A k \in SeqKeys \cup Keys : ~Stored(k)
        /\ CurCapacity = pre.base_capacity
  /\ ((Returned("put") \/ Returned("remove") \/ Returned("clear")) /\ pre.live) =>
        CurBase = pre.base_capacity
  /\ (KeyCall("put") /\ pre.size = 0 /\ pre.capacity = 1) =>
        CurSize = 1 /\ CurCapacity = 2

\* Clear emptied a table that had grown beyond its base capacity.
C9_Witness ==
  /\ Returned("clear") /\ pre.live /\ ret = D_Success
  /\ pre.size >= 3 /\ pre.capacity > pre.base_capacity
  /\ CurSize = 0 /\ CurCapacity = pre.base_capacity

\* ----------------------------------------------------------------- C10
QueryOps == {"isEmpty", "size", "capacity", "containsKey", "get", "put", "clear", "remove"}

\* C10: with no table, IsEmpty, Size, Capacity, ContainsKey, Get, Put, Clear
\* and Remove return their failure value (NULL for Get, D_Error otherwise)
\* and set the last error to D_Uninitialized, whatever the key, and there is
\* still no table.
C10_UninitializedFails ==
  (call.op \in QueryOps /\ ~pre.live) =>
     /\ ~crashed
     /\ ret = IF call.op = "get" THEN NULL ELSE D_Error
     /\ croquette_error = D_Uninitialized
     /\ ~Live /\ DOMAIN nodes = {} /\ freed = <<>>

\* A Put with an invalid key while there is no table.
C10_Witness ==
  /\ call.op = "put" /\ InvalidKey(call.key) /\ ~pre.live
  /\ croquette_error = D_Uninitialized /\ ret = D_Error /\ ~Live

\* ----------------------------------------------------------------- C11
\* The arguments of the last call, when it was a create.
ArgCapacity == call.value[1]
ArgDoFree == call.value[2]
ArgFreeValue == call.value[3]
ArgCompare == call.value[4]
ReleaseMissing == ArgDoFree = Croquette_Free_Value /\ ArgFreeValue = NULL
EqualsMissing == ArgCompare = NULL

\* C11: Create on a live table fails with D_Exists and leaves its entries,
\* size, capacity, base capacity and callbacks as they were; with no table
\* it fails with D_FreeValue_Missing when ownership is asked without a
\* release function, else with D_ValueCompare_Missing when no comparison
\* function is given; after a failed Create with no table there is still no
\* table.
C11_CreateRejects ==
  Returned("create") =>
     /\ pre.live =>
          ret = D_Error /\ croquette_error = D_Exists /\ Snapshot = pre
     /\ (~pre.live /\ ReleaseMissing) =>
          ret = D_Error /\ croquette_error = D_FreeValue_Missing
     /\ (~pre.live /\ ~ReleaseMissing /\ EqualsMissing) =>
          ret = D_Error /\ croquette_error = D_ValueCompare_Missing
     /\ (~pre.live /\ ret = D_Error) => ~Live /\ DOMAIN nodes = {}

\* A Create with other settings was rejected by a table that holds a key.
C11_Witness ==
  /\ Returned("create") /\ pre.live /\ pre.size >= 1
  /\ ArgDoFree # pre.do_free
  /\ ret = D_Error /\ croquette_error = D_Exists /\ Snapshot = pre

\* ----------------------------------------------------------------- C12
RequestedCapacity ==
  IF ArgCapacity <= 0 THEN CROQUETTE_DEFAULT_INITIAL_SIZE ELSE ArgCapacity

\* C12: a Create with no table and the functions it needs succeeds; a
\* successful Create leaves a live table with no entry, size 0 and capacity
\* = base capacity = the capacity asked for, 11 when the request was <= 0.
C12_CreateYieldsEmptyTable ==
  /\ (Returned("create") /\ ~pre.live /\ ~ReleaseMissing /\ ~EqualsMissing) =>
        ret = D_Success
  /\ (Returned("create") /\ ret = D_Success) =>
        /\ Live /\ ~pre.live
        /\ CurSize = 0 /\ DOMAIN nodes = {}
        /\ \A i \in 1..CurCapacity : croquette[1].table[i] = NULL
        /\ CurCapacity = RequestedCapacity /\ CurBase = RequestedCapacity
        /\ Len(croquette[1].table) = RequestedCapacity
        /\ croquette_error = D_No_Error

\* A Create that asked for a negative capacity got the default.
C12_Witness ==
  /\ Returned("create") /\ ret = D_Success /\ ArgCapacity < 0
  /\ CurCapacity = CROQUETTE_DEFAULT_INITIAL_SIZE /\ CurSize = 0

\* ----------------------------------------------------------------- C13
KeyOps == {"containsKey", "get", "put", "remove"}

\* C13: on a live table, ContainsKey, Get, Put and Remove with a NULL or an
\* empty key return their failure value with last error D_Invalid_Key and
\* leave size, capacity and every stored entry as they were.
C13_InvalidKeyRejected ==
  (call.op \in KeyOps /\ pre.live /\ call.key \in {K_empty, NullKey}) =>
     /\ ~crashed
     /\ ret = IF call.op = "get" THEN NULL ELSE D_Error
     /\ croquette_error = D_Invalid_Key
     /\ Snapshot = pre
     /\ freed = <<>>

\* A Put with the empty key was rejected by a table that holds a key.
C13_Witness ==
  /\ call.op = "put" /\ call.key = K_empty /\ pre.live /\ pre.size >= 1
  /\ ret = D_Error /\ croquette_error = D_Invalid_Key /\ Snapshot = pre

\* ----------------------------------------------------------------- C14
\* C14: a Remove of a stored key returns success; afterwards the key is not
\* stored, the size is one less, and every other key is stored with the
\* value it had - wherever the entry sat in its bucket chain.
C14_RemoveStoredKey ==
  (KeyCall("remove") /\ PreVal(call.key) # NULL) =>
     /\ call.place \in {"only", "first", "middle", "last"}
     /\ ret = D_Success
     /\ ~Stored(call.key)
     /\ CurSize = pre.size - 1
     /\ StoredKeys = DOMAIN pre.content \ {call.key}
     /\ \A k \in StoredKeys : Stored(k) /\ Lookup(k) = pre.content[k]

\* A Remove took an entry out of the middle of a chain.
C14_Witness ==
  /\ KeyCall("remove") /\ call.place = "middle" /\ ret = D_Success
  /\ ~Stored(call.key) /\ CurSize = pre.size - 1 /\ CurSize >= 2

\* ----------------------------------------------------------------- C15
\* The carriers the bucket chains link, bucket by bucket.
Linked == table_ids(Mach(FALSE, 0), 1)
Bucket(i) == chain_ids(Mach(FALSE, 0), croquette[1].table[i], {})

\* C15: between public operations no two entries of the bucket chains hold
\* the same key, and every carrier is in a chain; a Put of a stored key adds
\* no entry.
C15_KeysUnique ==
  /\ \A i, j \in 1..Len(Linked) :
        nodes[Linked[i]].key = nodes[Linked[j]].key => i = j
  /\ Len(Linked) = Cardinality(DOMAIN nodes)
  /\ (KeyCall("put") /\ PreVal(call.key) # NULL) =>
        Len(Linked) = pre.size /\ StoredKeys = DOMAIN pre.content

\* A Put gave a new value to a stored key while another key was stored.
C15_Witness ==
  /\ KeyCall("put") /\ PreVal(call.key) # NULL /\ ret = D_Success
  /\ Lookup(call.key) # PreVal(call.key)
  /\ Len(Linked) = 2 /\ pre.size = 2

\* ----------------------------------------------------------------- C16
\* C16: between public operations of a live table the size is the number of
\* entries the bucket chains link, size >= 0, capacity >= 1, and the bucket
\* array has capacity buckets.
C16_SizeCountsEntries ==
  Live =>
     /\ CurSize = Len(Linked)
     /\ CurSize = Cardinality(DOMAIN nodes)
     /\ CurSize >= 0
     /\ CurCapacity >= 1
     /\ Len(croquette[1].table) = CurCapacity

\* A Remove halved the capacity and left entries behind.
C16_Witness ==
  /\ KeyCall("remove") /\ ret = D_Success
  /\ CurCapacity < pre.capacity /\ CurSize >= 2 /\ CurSize = Len(Linked)

\* ----------------------------------------------------------------- C17
\* C17: between public operations every entry is in the chain of bucket
\* hash(key) mod capacity, for the capacity the table has.
C17_EntriesInTheirBucket ==
  Live =>
     \A i \in 1..CurCapacity :
        \A j \in 1..Len(Bucket(i)) :
           CRem(hash_code(nodes[Bucket(i)[j]].key), CurCapacity) = i - 1

\* A Put doubled the capacity and the entries are spread over the buckets.
C17_Witness ==
  /\ KeyCall("put") /\ CurCapacity = 2 * pre.capacity /\ CurSize >= 3
  /\ \E i, j \in 1..CurCapacity : i # j /\ Bucket(i) # <<>> /\ Bucket(j) # <<>>

\* ----------------------------------------------------------------- C18
\* C18: Destroy always ends with no table - also when its clear step fails
\* because the bucket array of the reset cannot be allocated - and with no
\* table it changes nothing.
C18_DestroyAlwaysUninitializes ==
  Returned("destroy") =>
     /\ ~Live
     /\ DOMAIN nodes = {}
     /\ ~pre.live => freed = <<>>

\* ----------------------------------------------------------------- C19
ValidCreate == ~ReleaseMissing /\ ~EqualsMissing

\* C19: a Destroy of a live table leaves no table; a Create after it
\* succeeds and gives an empty table whose size, capacity, base capacity,
\* ownership and functions are those of this Create, with no carrier and no
\* key of an earlier table - however many tables were created and destroyed
\* before.
C19_CreateAfterDestroy ==
  /\ (Returned("destroy") /\ pre.live) => ~Live /\ DOMAIN nodes = {}
  /\ (Returned("create") /\ destroyed /\ ~pre.live /\ ValidCreate) =>
        /\ ret = D_Success /\ Live
        /\ CurSize = 0 /\ CurCapacity = RequestedCapacity
        /\ CurBase = RequestedCapacity
        /\ croquette[1].do_free = ArgDoFree
        /\ croquette[1].free_value = ArgFreeValue
        /\ croquette[1].value_compare = ArgCompare
        /\ DOMAIN nodes = {}
        /\ \A k \in Keys : ~Stored(k)

\* A table of capacity 3 that does not own its values was created after
\* another table had been destroyed.
C19_Witness ==
  /\ Returned("create") /\ destroyed /\ ~pre.live /\ ret = D_Success
  /\ CurCapacity = 3 /\ CurSize = 0 /\ croquette[1].do_free = D_No_Free
  /\ \A k \in Keys : ~Stored(k)

\* ----------------------------------------------------------------- C20
\* C20: on a live table, ContainsKey of a valid key that is not stored
\* returns 0 and Get returns NULL, both with last error D_No_Error.
C20_AbsentKeyIsNoError ==
  /\ (KeyCall("containsKey") /\ PreVal(call.key) = NULL) =>
        ret = 0 /\ croquette_error = D_No_Error
  /\ (KeyCall("get") /\ PreVal(call.key) = NULL) =>
        ret = NULL /\ croquette_error = D_No_Error
  /\ (KeyCall("containsKey") /\ PreVal(call.key) # NULL) => ret = 1

\* A Get of a key that is not stored, on a table that holds another key.
C20_Witness ==
  /\ KeyCall("get") /\ PreVal(call.key) = NULL /\ pre.size >= 1
  /\ ret = NULL /\ croquette_error = D_No_Error

\* ------------------------------------------------------------------ C21
\* C21: PutIfAbsent(k, v) on a key that is not stored returns the absent
\* marker and stores v as Put does: the size grows by one and the capacity
\* doubles exactly when the grow policy says so; on a stored key it returns
\* the stored value and changes neither that value, nor the size, nor the
\* capacity.
C21_PutIfAbsent ==
  /\ (KeyCall("putIfAbsent") /\ PreVal(call.key) = NULL) =>
        /\ ret = NULL
        /\ Stored(call.key) /\ Lookup(call.key) = call.value
        /\ CurSize = pre.size + 1
        /\ CurCapacity =
             IF pre.size + 1 > Threshold(pre.capacity) \/ pre.size + 1 >= pre.capacity
               THEN 2 * pre.capacity ELSE pre.capacity
        /\ \A k \in DOMAIN pre.content : Stored(k) /\ Lookup(k) = pre.content[k]
  /\ (KeyCall("putIfAbsent") /\ PreVal(call.key) # NULL) =>
        /\ ret = PreVal(call.key)
        /\ Contents = pre.content
        /\ CurSize = pre.size /\ CurCapacity = pre.capacity
        /\ freed = <<>>

\* A PutIfAbsent of a new key doubled the capacity of a table that held an
\* entry.
C21_Witness ==
  /\ KeyCall("putIfAbsent") /\ PreVal(call.key) = NULL
  /\ ret = NULL /\ pre.size >= 1 /\ CurCapacity = 2 * pre.capacity
  /\ Lookup(call.key) = call.value

\* ------------------------------------------------------------------ C22
\* C22: GetOrDefault(k, d) returns the stored value when k is stored and d
\* when k is valid and not stored, leaves the last error at NoError in both
\* cases, and never changes the table.
C22_GetOrDefault ==
  /\ (KeyCall("getOrDefault") /\ call.key \in DOMAIN pre.content) =>
        ret = pre.content[call.key] /\ croquette_error = D_No_Error
  /\ (KeyCall("getOrDefault") /\ call.key \notin DOMAIN pre.content) =>
        ret = call.value /\ croquette_error = D_No_Error
  /\ Returned("getOrDefault") =>
        /\ Live = pre.live /\ Contents = pre.content
        /\ CurSize = pre.size /\ CurCapacity = pre.capacity
        /\ CurBase = pre.base_capacity
        /\ freed = <<>>

\* A GetOrDefault found a value that is not the default, behind the head of
\* a chain.
C22_Witness ==
  /\ KeyCall("getOrDefault") /\ call.key \in DOMAIN pre.content
  /\ call.place = "last"
  /\ ret # call.value /\ ret = Lookup(call.key)

\* ------------------------------------------------------------------ C23
\* C23: on a live table ContainsValue(v) returns true exactly when the value
\* of some stored entry is equal to v under the equality function of the
\* callers (equal content); on an empty table it returns false.
C23_ContainsValue ==
  (Returned("containsValue") /\ pre.live /\ call.value # NULL) =>
     /\ ret \in {0, 1}
     /\ (ret = 1) <=>
          \E i \in DOMAIN nodes : Content(nodes[i].value) = Content(call.value)
     /\ pre.size = 0 => ret = 0

\* ContainsValue found an element equal to, and other than, the one asked
\* for.
C23_Witness ==
  /\ Returned("containsValue") /\ pre.live /\ call.value # NULL
  /\ ret = 1
  /\ \A i \in DOMAIN nodes : nodes[i].value # call.value

\* ------------------------------------------------------------------ C24
\* The operations that return an int, D_Error on failure.
IntOps ==
  {"create", "isEmpty", "size", "capacity", "containsKey", "containsValue",
   "put", "remove", "clear"}

\* The last call reported a failure to its caller.
ReportsFailure ==
  /\ call.op # "start" /\ ~crashed
  /\ \/ call.op \in IntOps /\ ret = D_Error
     \/ call.op = "get" /\ ret = NULL /\ croquette_error # D_No_Error

\* C24: when a public operation reports a failure - an allocation failure
\* inside Put, Remove or Clear included - the table exists as before and
\* holds the entries, the size and the capacity it had before.
C24_FailureLeavesTable ==
  ReportsFailure =>
     /\ Live = pre.live
     /\ Contents = pre.content
     /\ CurSize = pre.size /\ CurCapacity = pre.capacity

\* ------------------------------------------------------------------ C25
\* The last call was a Put or a Remove whose rehash could not allocate the
\* new bucket array: the entry was inserted or removed, and the call failed
\* for lack of memory.
RehashAllocFailed ==
  /\ call.op \in {"put", "remove"} /\ KeyCall(call.op)
  /\ ret = D_Error /\ croquette_error = D_Insufficient_Memory
  /\ call.op = "put" => Stored(call.key)

\* More entries than the grow test lets a table of this capacity keep: the
\* state a failed doubling leaves.
OverFull(size, capacity) == size > Threshold(capacity) \/ size >= capacity

\* The last call ran without any failure.
Unfailed == ret # D_Error /\ croquette_error = D_No_Error

\* C25: when the new bucket array cannot be allocated in the rehash of a Put
\* or a Remove, the table stays live at the capacity it had, with every
\* stored entry retrievable; the operations after it work: a Get returns what
\* is stored, a Put stores its entry, keeps the others and grows the table
\* until the grow test is met, a Remove removes its entry and keeps the
\* others.
C25_FailedRehashKeepsTable ==
  /\ RehashAllocFailed =>
        /\ Live /\ ~Dangling
        /\ CurCapacity = pre.capacity
        /\ \A k \in DOMAIN pre.content \ {call.key} :
              Stored(k) /\ Lookup(k) = pre.content[k]
        /\ call.op = "put" =>
              /\ Lookup(call.key) = call.value
              /\ CurSize = pre.size + 1
        /\ call.op = "remove" =>
              /\ ~Stored(call.key)
              /\ CurSize = pre.size - 1
        /\ CurSize = Cardinality(DOMAIN nodes)
  /\ KeyCall("get") => ret = PreVal(call.key)
  /\ (KeyCall("put") /\ Unfailed) =>
        /\ Stored(call.key)
        /\ \A k \in DOMAIN pre.content \ {call.key} :
              Stored(k) /\ Lookup(k) = pre.content[k]
        /\ PreVal(call.key) = NULL =>
              /\ Lookup(call.key) = call.value
              /\ CurSize = pre.size + 1
              /\ ~OverFull(CurSize, CurCapacity)
  /\ (KeyCall("remove") /\ Unfailed) =>
        /\ ~Stored(call.key)
        /\ \A k \in DOMAIN pre.content \ {call.key} :
              Stored(k) /\ Lookup(k) = pre.content[k]

\* The doubling of a Put failed on a table that an earlier failed doubling
\* had left over-full, and that held an entry.
C25_Witness ==
  /\ RehashAllocFailed /\ call.op = "put"
  /\ pre.size >= 1 /\ OverFull(pre.size, pre.capacity)
  /\ CurCapacity = pre.capacity /\ CurSize = pre.size + 1
  /\ \A k \in DOMAIN pre.content : Lookup(k) = pre.content[k]

\* ------------------------------------------------------------------ C26
\* The failure the last call had to report, D_No_Error when it had none: a
\* Create on a live table or without a function it needs, another call
\* (Destroy apart) with no table, a key operation with an invalid key.
FailureKind ==
  IF call.op = "create"
    THEN IF pre.live THEN D_Exists
         ELSE IF ReleaseMissing THEN D_FreeValue_Missing
         ELSE IF EqualsMissing THEN D_ValueCompare_Missing
         ELSE D_No_Error
  ELSE IF call.op = "destroy" THEN D_No_Error
  ELSE IF ~pre.live THEN D_Uninitialized
  ELSE IF call.op \in KeyOps /\ InvalidKey(call.key) THEN D_Invalid_Key
  ELSE D_No_Error

\* C26: after a public operation that completes successfully the last error
\* is D_No_Error, whatever error an earlier call left; after a failing
\* operation it is the kind of that failure.
C26_LastErrorIsLastOutcome ==
  (call.op # "start" /\ ~crashed) => croquette_error = FailureKind

\* ------------------------------------------------------------------ C27
\* C27: a table created without ownership never hands a value to a release
\* function, whatever the call - Remove, Clear, Destroy and the rehashes
\* included - so that every value it ever stored is unreleased when it is
\* destroyed.
C27_NonOwningNeverReleases ==
  (call.op # "start" /\ ~crashed /\ pre.live /\ pre.do_free = D_No_Free) =>
     freed = <<>>

\* ------------------------------------------------------------------ C28
\* The values a function holds, and whether it holds each under one key.
ValuesOf(content) == {content[k] : k \in DOMAIN content}
OneKeyEach(content) ==
  \A k1, k2 \in DOMAIN content : content[k1] = content[k2] => k1 = k2

\* The last call was made on an owning table by callers that store no
\* reference under two keys.
OwnedUnshared ==
  /\ call.op # "start" /\ ~crashed
  /\ pre.live /\ pre.do_free = D_Do_Free
  /\ OneKeyEach(pre.content) /\ OneKeyEach(Contents)

\* How often the last call handed a value to the release function.
ReleaseCount(value) == Cardinality({i \in DOMAIN freed : freed[i] = value})

\* C28: in an owning table whose callers store no reference under two keys,
\* a call hands to the release function, once each, exactly the values that
\* were stored before it and are not stored after it: that of the entry a
\* Remove, a Clear or a Destroy removes and the one a Put replaces; no value
\* that Get still returns is released, and a grow or shrink rehash releases
\* no stored value.
C28_OwnedReleasedOnce ==
  OwnedUnshared =>
     \A v \in Values :
        ReleaseCount(v) =
          IF v \in ValuesOf(pre.content) /\ v \notin ValuesOf(Contents)
            THEN 1 ELSE 0

\* A Remove halved the table: the value removed was released once, the
\* value that moved to the new buckets was not.
C28_Witness ==
  /\ OwnedUnshared /\ KeyCall("remove")
  /\ pre.size >= 2 /\ CurCapacity < pre.capacity
  /\ ReleaseCount(PreVal(call.key)) = 1
  /\ \E k \in DOMAIN Contents : ReleaseCount(Contents[k]) = 0

\* ------------------------------------------------------------------ C29
\* C29: croquette_set_error with a code below 0 or above D_Num_Errors stores
\* D_No_Such_Error, and croquette_get_error then returns D_No_Such_Error.
C29_InvalidCodeIsNoSuchError ==
  /\ (call.op = "set_error" /\ (call.value < 0 \/ call.value > D_Num_Errors)) =>
        croquette_error = D_No_Such_Error
  /\ call.op = "get_error" => ret = croquette_error

\* ------------------------------------------------------------------ C30
\* C30: as the documentation of croquette_create says, a Remove of a stored
\* key halves the capacity when it leaves size < (capacity >> 2), and only
\* then.
C30_HalvesBelowQuarter ==
  (KeyCall("remove") /\ PreVal(call.key) # NULL /\ ret = D_Success) =>
     CurCapacity =
       IF pre.size - 1 < (pre.capacity \div 4)
         THEN pre.capacity \div 2 ELSE pre.capacity

\* ------------------------------------------------------------------ C31
\* C31: a Put that inserts and a Remove that removes assess the grow/shrink
\* policy once, after the entry is added or removed; the reinsertions of a
\* rehash start no further rehash, so that no public call replaces the
\* bucket array more than once.
C31_PolicyOncePerCall ==
  /\ (KeyCall("put") /\ PreVal(call.key) = NULL /\ ret = D_Success) =>
        work.assessed = 1
  /\ (KeyCall("remove") /\ PreVal(call.key) # NULL /\ ret = D_Success) =>
        work.assessed = 1
  /\ work.rehashes <= 1

\* ------------------------------------------------------------------ C32
\* c1*128^(n-1) + ... + c(n-1)*128 + cn, or c1*128 when n = 1, in digits of
\* seven bits, lowest first: every character is below 128.
Reversed(key) == [i \in 1..Len(key) |-> key[Len(key) + 1 - i]]
PositionalSum(key) == IF Len(key) = 1 THEN <<0, key[1]>> ELSE Reversed(key)

\* The same sum modulo b.
RECURSIVE sum_mod(_, _, _)
sum_mod(key, n, b) ==
  IF n = 0 THEN 0 ELSE (key[n] + 128 * sum_mod(key, n - 1, b)) % b

PositionalMod(key, b) ==
  IF Len(key) = 1 THEN (key[1] * 128) % b ELSE sum_mod(key, Len(key), b)

\* C32: the hash of a key c1..cn is c1*128 when n = 1 and
\* c1*128^(n-1) + ... + c(n-1)*128 + cn when n >= 2, and the bucket index of
\* a key in a live table is its hash modulo the capacity.
C32_HashIsPositionalSum ==
  /\ Returned("hash_code") => ret = PositionalSum(call.key)
  /\ (Returned("get_index") /\ pre.live) =>
        ret = PositionalMod(call.key, pre.capacity)

\* ------------------------------------------------------------------ C33
\* C33: for every valid key and every capacity the bucket index lies in
\* 0..capacity-1, InvalidIndex is never raised and no bucket outside the
\* array is read, keys whose hash overflows the accumulator included.
C33_IndexInRange ==
  /\ (Returned("get_index") /\ pre.live /\ ~InvalidKey(call.key)) =>
        ret \in 0..(pre.capacity - 1)
  /\ ~work.invalid
  /\ ~work.outside

\* ------------------------------------------------------------------ C34
\* Two keys that agree on their first MAX_KEY_SIZE characters.
SameKey(k1, k2) == Prefix(k1, MAX_KEY_SIZE) = Prefix(k2, MAX_KEY_SIZE)

\* C34: keys are compared and hashed on their first 255 characters only:
\* after a successful Put with a key, every key that agrees with it on those
\* characters finds the value put, and a Put with a key that agrees with a
\* stored one adds no entry.
C34_KeysCutAt255 ==
  (KeyCall("put") /\ ret = D_Success) =>
     /\ \A k \in CutKeys : SameKey(k, call.key) => Lookup(k) = call.value
     /\ (\E k \in DOMAIN pre.content : SameKey(k, call.key) /\ pre.content[k] # NULL) =>
           croquette[1].size = pre.size

\* ----------------------------------------------------------------- C35
\* The entry before the j-th entry of a chain: none for the head.
Before(chain, j) == IF j = 1 THEN NULL ELSE chain[j - 1]

\* C35: between public operations, in every bucket chain the head has no
\* backward link and every other entry's backward link is the entry just
\* before it.
C35_LinksConsistent ==
  (croquette # <<>> /\ ~crashed) =>
     \A i \in 1..Len(croquette[1].table) :
        \A j \in 1..Len(Bucket(i)) :
           nodes[Bucket(i)[j]].prev = Before(Bucket(i), j)

\* A Remove took the head of a chain that goes on, or an entry out of the
\* middle of a chain, and a chain of two entries or more remains.
C35_Witness ==
  /\ KeyCall("remove") /\ ret = D_Success /\ call.place \in {"first", "middle"}
  /\ \E i \in 1..Len(croquette[1].table) :
        /\ Len(Bucket(i)) >= 2
        /\ nodes[Bucket(i)[2]].prev = Bucket(i)[1]

\* ----------------------------------------------------------------- C36
\* The calls that only ask.
ReadOps == {"isEmpty", "size", "capacity", "containsKey", "get"}

\* C36: IsEmpty, Size, Capacity, ContainsKey and Get leave the stored
\* entries, the size, the capacity and the base capacity as they were and
\* hand no value to the release function; the value a Get returned is still
\* stored under its key.
C36_QueriesChangeNothing ==
  (call.op \in ReadOps /\ ~crashed) =>
     /\ Snapshot = pre
     /\ freed = <<>>
     /\ (call.op = "get" /\ ret # NULL) => Lookup(call.key) = ret

\* A Get returned the value of one of two stored keys.
C36_Witness ==
  /\ KeyCall("get") /\ ret # NULL /\ ret = PreVal(call.key)
  /\ pre.size >= 2 /\ CurSize = pre.size

\* ----------------------------------------------------------------- C37
\* The calls that change a table.
ChangeOps == {"create", "put", "remove", "clear"}

\* C37: after a call that returned success on a live table, with
\* allocations that succeed, the size is at most (capacity>>1) +
\* (capacity>>2) and below the capacity.
C37_LoadBounded ==
  (Live /\ ~crashed /\ call.op \in ChangeOps /\ ret = D_Success) =>
     /\ CurSize <= Threshold(CurCapacity)
     /\ CurSize < CurCapacity

\* A Put filled a table of three entries or more up to the limit without
\* growing it.
C37_Witness ==
  /\ KeyCall("put") /\ ret = D_Success /\ CurSize = pre.size + 1
  /\ CurCapacity = pre.capacity /\ CurSize = Threshold(CurCapacity)
  /\ CurSize >= 3

\* ----------------------------------------------------------------- C38
\* C38: every Put and every Remove returns after a bounded number of nested
\* calls: a Put assesses the policy at most once for itself and once for
\* each entry it moves, replaces the bucket array at most once and leaves
\* the capacity as it was or doubled; a Remove replaces the bucket array at
\* most twice and assesses the policy at most once for itself and twice
\* for each entry that remains.
C38_RehashesBounded ==
  /\ KeyCall("put") =>
        /\ work.rehashes <= 1
        /\ work.assessed <= pre.size + 2
        /\ CurCapacity \in {pre.capacity, 2 * pre.capacity}
  /\ KeyCall("remove") =>
        /\ work.rehashes <= 2
        /\ work.assessed <= 2 * pre.size

\* A Remove replaced the bucket array twice: it halved the table and the
\* reinsertion of the remaining entries doubled it again.
C38_Witness ==
  /\ KeyCall("remove") /\ ret = D_Success /\ work.rehashes = 2
  /\ CurCapacity = pre.capacity /\ CurSize = pre.size - 1 /\ CurSize >= 2

\* ----------------------------------------------------------------- C39
\* C39: when the callers store no NULL value, every value a call hands to
\* the release function is a value that was stored in the table before the
\* call; the release function is never called with NULL, not even for the
\* entries a rehash moves.
C39_ReleaseOnlyStored ==
  (pre.live /\ ~crashed) =>
     \A i \in DOMAIN freed :
        freed[i] # NULL /\ freed[i] \in ValuesOf(pre.content)
====
